---- MODULE Spec2Model ----
(***************************************************************************)
(* Model of gursShp2geoJson.go: six lookup tables loaded by goroutines     *)
(* behind a WaitGroup, the per-record transformation of ReadShapefile,     *)
(* SortFeatureCollection with its comparator, NormalizeHouseNumber and     *)
(* ApplyTagLanguagePostfix.                                                *)
(*                                                                         *)
(* Strings are sequences of numbers: the bytes of a raw DBF field          *)
(* (Windows-1250) or the code points of a decoded Go string.  Go compares  *)
(* strings bytewise on their UTF-8 form, which is the code point order.    *)
(* Tag keys are TLA+ strings (they are only tested for equality).          *)
(* A coordinate is <<degrees, fraction>>, both naturals: the fraction is   *)
(* in units of 10^-8 degree before rounding and 10^-7 degree after.        *)
(***************************************************************************)
EXTENDS Integers, Sequences, FiniteSets, TLC

VARIABLES
    pc,         \* position of main
    wg,         \* the WaitGroup counter of ReadLookups
    spawned,    \* how many of the six go statements main has executed
    lpc,        \* position of each loader goroutine
    maps,       \* the six package-level lookup maps (nil = empty)
    cur,        \* the record the shapefile cursor is on
    nRead,      \* records consumed from the primary shapefile
    validRefs,  \* history: HS_MID of the records that passed the status test
    features,   \* featureCollection.Features
    unsorted,   \* history: the Features as they were when sorting began
    output,     \* what was written to the output file
    hn,         \* argument of a NormalizeHouseNumber call
    key         \* its result

vars == <<pc, wg, spawned, lpc, maps, cur, nRead, validRefs, features,
          unsorted, output, hn, key>>

-----------------------------------------------------------------------------
(* Bounds of the model *)

\* records the primary shapefile may hold (specification Spec)
MaxRecords == 3
\* records the primary shapefile may hold (specification SpecRecord)
MaxWideRecords == 1
\* longest house-number string handed to NormalizeHouseNumber (SpecNorm)
MaxHnLen == 4

-----------------------------------------------------------------------------
(* Strings *)

\* Go's s < t on strings
RECURSIVE StrLess(_, _)
StrLess(s, t) ==
    IF t = <<>> THEN FALSE
    ELSE IF s = <<>> THEN TRUE
    ELSE IF Head(s) # Head(t) THEN Head(s) < Head(t)
    ELSE StrLess(Tail(s), Tail(t))

StrLeq(s, t) == s = t \/ StrLess(s, t)

\* all sequences over alphabet A of length at most n
StringsUpTo(A, n) == UNION {[1..k -> A] : k \in 0..n}

\* excerpt of the Windows-1250 code page above 0x7F (byte :> code point)
Win1250High ==
    (138 :> 352) @@ (142 :> 381) @@ (154 :> 353) @@ (158 :> 382) @@
    (200 :> 268) @@ (232 :> 269) @@ (225 :> 225) @@ (233 :> 233) @@
    (245 :> 337) @@ (246 :> 246) @@ (251 :> 369) @@ (252 :> 252)

DecodeByte(b) ==
    IF b < 128 THEN b
    ELSE IF b \in DOMAIN Win1250High THEN Win1250High[b]
    ELSE 65533

DecodeWindows1250bytes(enc) == [i \in 1..Len(enc) |-> DecodeByte(enc[i])]

DecodeWindows1250(str) == DecodeWindows1250bytes(str)

\* strings.ToLower on the code points the model draws
LowerRune(c) ==
    IF c \in 65..90 THEN c + 32
    ELSE IF c \in {268, 352, 381, 336, 368} THEN c + 1
    ELSE c

ToLower(s) == [i \in 1..Len(s) |-> LowerRune(s[i])]

\* strings.Trim(s, "\u0000")
RECURSIVE TrimLeftNul(_)
TrimLeftNul(s) ==
    IF s # <<>> /\ Head(s) = 0 THEN TrimLeftNul(Tail(s)) ELSE s

RECURSIVE TrimRightNul(_)
TrimRightNul(s) ==
    IF s # <<>> /\ s[Len(s)] = 0
    THEN TrimRightNul(SubSeq(s, 1, Len(s) - 1))
    ELSE s

TrimNul(s) == TrimRightNul(TrimLeftNul(s))

\* the Go slice expression s[lo:hi] (0-based, hi exclusive), in bounds
Slice(s, lo, hi) == SubSeq(s, lo + 1, hi)

-----------------------------------------------------------------------------
(* Constants of the program *)

roundingFactor == 10000000

tagHousenumber == "addr:housenumber"
tagCity == "addr:city"
tagPostCode == "addr:postcode"
tagStreet == "addr:street"
tagPlace == "addr:place"
tagSourceDate == "source:addr:date"
tagSource == "source:addr"
\* "GURS"
tagSourceValue == <<71, 85, 82, 83>>
tagRef == "ref:GURS:HS_MID"
tagLangPostfixSlovenian == ":sl"
tagLangPostfixItalian == ":it"
tagLangPostfixHungarian == ":hu"
\* " / "
bilingualSeparator == <<32, 47, 32>>

\* 14.5 degrees, in units of 1/roundingFactor
ItalianHungarianSplitLongitude == <<14, 5000000>>

\* "V"
StatusValid == <<86>>

-----------------------------------------------------------------------------
(* The lookup shapefiles: rows of raw, NUL-padded Windows-1250 fields.     *)
(* Each identifier "1".."4" is one case of the join; "5" is in no file.    *)

\* data/temp/PT/SI.GURS.RPE.PUB.PT.shp
PTFile ==
    << [PT_MID |-> <<49>>, PT_ID |-> <<49, 48, 48, 48>>, PT_UIME |-> <<76, 0>>],
       [PT_MID |-> <<50>>, PT_ID |-> <<50, 48, 48, 48>>, PT_UIME |-> <<77, 0>>],
       [PT_MID |-> <<51>>, PT_ID |-> <<51, 48, 48, 48>>, PT_UIME |-> <<0, 0>>],
       [PT_MID |-> <<52>>, PT_ID |-> <<0, 0, 0, 0>>, PT_UIME |-> <<88, 0>>] >>

\* data/temp/UL/SI.GURS.RPE.PUB.UL.shp ("1" is listed twice)
ULFile ==
    << [UL_MID |-> <<49>>, UL_UIME |-> <<90, 0>>, UL_DJ |-> <<0, 0>>],
       [UL_MID |-> <<49>>, UL_UIME |-> <<65, 0>>, UL_DJ |-> <<0, 0>>],
       [UL_MID |-> <<50>>, UL_UIME |-> <<66, 0>>, UL_DJ |-> <<67, 0>>],
       [UL_MID |-> <<51>>, UL_UIME |-> <<200, 0>>, UL_DJ |-> <<200, 0>>],
       [UL_MID |-> <<52>>, UL_UIME |-> <<0, 0>>, UL_DJ |-> <<67, 0>>] >>

\* data/temp/NA/SI.GURS.RPE.PUB.NA.shp
NAFile ==
    << [NA_MID |-> <<49>>, NA_UIME |-> <<80, 0>>, NA_DJ |-> <<0, 0>>],
       [NA_MID |-> <<50>>, NA_UIME |-> <<80, 0>>, NA_DJ |-> <<81, 0>>],
       [NA_MID |-> <<51>>, NA_UIME |-> <<80, 0>>, NA_DJ |-> <<80, 0>>],
       [NA_MID |-> <<52>>, NA_UIME |-> <<0, 0>>, NA_DJ |-> <<81, 0>>] >>

\* a Go map: a function whose domain is the set of keys present
EmptyMap == <<>>

MapPut(m, k, v) == [x \in (DOMAIN m) \cup {k} |-> IF x = k THEN v ELSE m[x]]

\* m[k] of Go: the zero value "" when the key is missing
MapGet(m, k) == IF k \in DOMAIN m THEN m[k] ELSE <<>>

\* readShapefileToMap: rows scanned in file order, empty values dropped,
\* a repeated key overwritten
RECURSIVE ScanRows(_, _, _, _)
ScanRows(rows, keyColumnName, valueColumnName, result) ==
    IF rows = <<>> THEN result
    ELSE LET valueUtf == TrimNul(DecodeWindows1250(Head(rows)[valueColumnName]))
             k == DecodeWindows1250(Head(rows)[keyColumnName])
         IN ScanRows(Tail(rows), keyColumnName, valueColumnName,
                     IF Len(valueUtf) > 0 THEN MapPut(result, k, valueUtf)
                     ELSE result)

readShapefileToMap(shapeFile, keyColumnName, valueColumnName) ==
    ScanRows(shapeFile, keyColumnName, valueColumnName, EmptyMap)

\* the six goroutines of ReadLookups, in the order of their go statements
MapNames ==
    <<"ptCodeMap", "ptNameMap", "ulNameMap", "ulNameDjMap", "naNameMap",
      "naNameDjMap">>

LoaderResult(i) ==
    CASE i = 1 -> readShapefileToMap(PTFile, "PT_MID", "PT_ID")
      [] i = 2 -> readShapefileToMap(PTFile, "PT_MID", "PT_UIME")
      [] i = 3 -> readShapefileToMap(ULFile, "UL_MID", "UL_UIME")
      [] i = 4 -> readShapefileToMap(ULFile, "UL_MID", "UL_DJ")
      [] i = 5 -> readShapefileToMap(NAFile, "NA_MID", "NA_UIME")
      [] i = 6 -> readShapefileToMap(NAFile, "NA_MID", "NA_DJ")

Loaders == 1..Len(MapNames)

ptCodeMap == maps[1]
ptNameMap == maps[2]
ulNameMap == maps[3]
ulNameDjMap == maps[4]
naNameMap == maps[5]
naNameDjMap == maps[6]

-----------------------------------------------------------------------------
(* NormalizeHouseNumber *)

\* unicode.IsDigit on the code points the model draws
IsDigit(c) == c \in 48..57 \/ c \in 1632..1641

\* a %s in place of %0<width>s: no padding at all
PadNone(s, width) == s

\* fmt's %0<width>s: zeros on the left up to width runes, never a cut
PadZero(s, width) ==
    IF Len(s) >= width THEN s
    ELSE [i \in 1..(width - Len(s)) |-> 48] \o s

NumberWidth == 3

\* the digit branch taken for every input
NormalizeAlwaysPlaceholder(housenumber) ==
    PadZero(housenumber, NumberWidth) \o <<95>>

NormalizeHouseNumber(housenumber) ==
    IF housenumber = <<>> \/ IsDigit(housenumber[Len(housenumber)])
    THEN PadZero(housenumber, NumberWidth) \o <<95>>
    ELSE PadZero(housenumber, NumberWidth + 1)

-----------------------------------------------------------------------------
(* Features *)

\* math.Round(x*roundingFactor)/roundingFactor on <<degrees, 10^-8 units>>
RoundCoord(c) ==
    LET q == (c[2] + 5) \div 10
    IN IF q >= roundingFactor THEN <<c[1] + 1, q - roundingFactor>>
       ELSE <<c[1], q>>

\* a > b on rounded coordinates
CoordGreater(a, b) == a[1] > b[1] \/ (a[1] = b[1] /\ a[2] > b[2])

\* >= in place of >
ApplyTagLanguagePostfixGeq(prefix, longitude) ==
    IF ~CoordGreater(ItalianHungarianSplitLongitude, longitude)
    THEN prefix \o tagLangPostfixHungarian
    ELSE prefix \o tagLangPostfixItalian

ApplyTagLanguagePostfix(prefix, longitude) ==
    IF CoordGreater(longitude, ItalianHungarianSplitLongitude)
    THEN prefix \o tagLangPostfixHungarian
    ELSE prefix \o tagLangPostfixItalian

NewPointFeature(coordinate) == [coords |-> coordinate, props |-> <<>>]

Has(f, tag) == tag \in DOMAIN f.props

SetProperty(f, tag, value) ==
    [f EXCEPT !.props =
        [t \in (DOMAIN f.props) \cup {tag} |->
            IF t = tag THEN value ELSE f.props[t]]]

\* shapeReader.Attribute(n) for the columns ReadShapefile reads
Attribute(r, n) ==
    CASE n = 1 -> r.HS_MID
      [] n = 4 -> r.LABELA
      [] n = 5 -> r.UL_MID
      [] n = 6 -> r.NA_MID
      [] n = 8 -> r.PT_MID
      [] n = 10 -> r.D_OD
      [] n = 12 -> r.STATUS

\* the street branch: the street id is in ulNameMap
SetStreetTags(f, r, lon) ==
    LET ulMid == Attribute(r, 5)
        ulName == MapGet(ulNameMap, ulMid)
        ulNameDj == MapGet(ulNameDjMap, ulMid)
    IN IF ulMid \in DOMAIN ulNameDjMap /\ ulNameDj # ulName
       THEN SetProperty(
              SetProperty(
                SetProperty(f, tagStreet,
                            ulName \o bilingualSeparator \o ulNameDj),
                tagStreet \o tagLangPostfixSlovenian, ulName),
              ApplyTagLanguagePostfix(tagStreet, lon), ulNameDj)
       ELSE SetProperty(f, tagStreet, ulName)

\* a place tag only for a settlement id that resolves
SetPlaceTagsIfResolved(f, r, lon) ==
    IF Attribute(r, 6) \in DOMAIN naNameMap
    THEN SetProperty(f, tagPlace, MapGet(naNameMap, Attribute(r, 6)))
    ELSE f

\* the place branch: no street name
SetPlaceTags(f, r, lon) ==
    LET naMid == Attribute(r, 6)
        naName == MapGet(naNameMap, naMid)
        naNameDj == MapGet(naNameDjMap, naMid)
    IN IF naMid \in DOMAIN naNameDjMap /\ naNameDj # naName
       THEN SetProperty(
              SetProperty(
                SetProperty(f, tagPlace,
                            naName \o bilingualSeparator \o naNameDj),
                tagPlace \o tagLangPostfixSlovenian, naName),
              ApplyTagLanguagePostfix(tagPlace, lon), naNameDj)
       ELSE SetProperty(f, tagPlace, naName)

\* the name tags of one record: the street family when the street id
\* resolves, else the place family
SetNameTags(f, r, lon) ==
    IF Attribute(r, 5) \in DOMAIN ulNameMap
    THEN SetStreetTags(f, r, lon)
    ELSE SetPlaceTags(f, r, lon)

\* the tags left out when the postal-area id is in neither map
SetPostTagsIfFound(f, r) ==
    LET ptMid == Attribute(r, 8)
        f1 == IF ptMid \in DOMAIN ptCodeMap
              THEN SetProperty(f, tagPostCode, ptCodeMap[ptMid]) ELSE f
    IN IF ptMid \in DOMAIN ptNameMap
       THEN SetProperty(f1, tagCity, ptNameMap[ptMid]) ELSE f1

\* postcode and city: the map read's zero value is stored on a miss
SetPostTags(f, r) ==
    LET ptMid == Attribute(r, 8)
    IN SetProperty(SetProperty(f, tagPostCode, MapGet(ptCodeMap, ptMid)),
                   tagCity, MapGet(ptNameMap, ptMid))

\* dateOd[0:4], dateOd[4:6], dateOd[6:8] are in bounds
DateSliceable(dateOd) == Len(dateOd) >= 8

FormatDate(dateOd) ==
    Slice(dateOd, 0, 4) \o <<45>> \o Slice(dateOd, 4, 6) \o <<45>>
        \o Slice(dateOd, 6, 8)

\* the body of ReadShapefile's loop for a record that passed the status test
\* and whose date can be sliced
BuildFeature(r) ==
    LET lat == RoundCoord(r.MinY)
        lon == RoundCoord(r.MinX)
        f0 == NewPointFeature(<<lat, lon>>)
        f1 == SetProperty(f0, tagHousenumber,
                          ToLower(DecodeWindows1250(Attribute(r, 4))))
        f2 == SetNameTags(f1, r, lon)
        f3 == SetPostTags(f2, r)
        f4 == SetProperty(f3, tagSourceDate, FormatDate(Attribute(r, 10)))
        f5 == SetProperty(f4, tagSource, tagSourceValue)
    IN SetProperty(f5, tagRef, Attribute(r, 1))

-----------------------------------------------------------------------------
(* SortFeatureCollection *)

\* -1, 0 or 1 as s is before, equal to or after t
Compare(s, t) == IF StrLess(s, t) THEN -1 ELSE IF StrLess(t, s) THEN 1 ELSE 0

\* first tier: the postcodes
PostCompare(a, b) == Compare(a.props[tagPostCode], b.props[tagPostCode])

\* second tier: the street names, when both sides have one
StreetCompare(a, b) ==
    IF Has(a, tagStreet) /\ Has(b, tagStreet)
    THEN Compare(a.props[tagStreet], b.props[tagStreet])
    ELSE 0

\* third tier: the place names, when both sides have one
PlaceCompare(a, b) ==
    IF Has(a, tagPlace) /\ Has(b, tagPlace)
    THEN Compare(a.props[tagPlace], b.props[tagPlace])
    ELSE 0

\* <= in place of <
HouseNumberLeq(a, b) ==
    StrLeq(NormalizeHouseNumber(a.props[tagHousenumber]),
           NormalizeHouseNumber(b.props[tagHousenumber]))

\* the house numbers compared as they are
HouseNumberLessRaw(a, b) ==
    StrLess(a.props[tagHousenumber], b.props[tagHousenumber])

\* last tier: the normalized house numbers
HouseNumberLess(a, b) ==
    StrLess(NormalizeHouseNumber(a.props[tagHousenumber]),
            NormalizeHouseNumber(b.props[tagHousenumber]))

\* the comparator handed to sort.Slice
Less(a, b) ==
    IF PostCompare(a, b) # 0 THEN PostCompare(a, b) < 0
    ELSE IF StreetCompare(a, b) # 0 THEN StreetCompare(a, b) < 0
    ELSE IF PlaceCompare(a, b) # 0 THEN PlaceCompare(a, b) < 0
    ELSE HouseNumberLess(a, b)

\* the comparator's .(string) assertions fail on a missing property
LessPanics(a) == ~Has(a, tagPostCode) \/ ~Has(a, tagHousenumber)

Swap(data, i, j) ==
    [data EXCEPT ![i] = data[j], ![j] = data[i]]

\* inner loop of the insertion sort: data[j] sinks while it is less than
\* its left neighbour
RECURSIVE SinkLeft(_, _)
SinkLeft(data, j) ==
    IF j > 1 /\ Less(data[j], data[j - 1])
    THEN SinkLeft(Swap(data, j, j - 1), j - 1)
    ELSE data

RECURSIVE InsertionSortFrom(_, _)
InsertionSortFrom(data, i) ==
    IF i > Len(data) THEN data
    ELSE InsertionSortFrom(SinkLeft(data, i), i + 1)

\* sort.Slice on a slice of at most 12 elements is an insertion sort
SortSlice(data) == InsertionSortFrom(data, 2)

\* every element of a slice of 2 or more is compared at least once
SortPanics(data) ==
    Len(data) >= 2 /\ \E i \in 1..Len(data) : LessPanics(data[i])

-----------------------------------------------------------------------------
(* The primary shapefile's records *)

NoRecord == <<>>

\* 14.4, 14.5, 14.50000004 and 14.6 degrees east
Longitudes ==
    {<<14, 40000000>>, <<14, 50000000>>, <<14, 50000004>>, <<14, 60000000>>}

\* 46.05 degrees north
Latitude == <<46, 5000000>>

\* HS_MID of the n-th row after the first: "1", "2", ... (the identifier
\* is unique to its row)
RowId(n) == <<49 + n>>

\* "20200131"
GoodDate == <<50, 48, 50, 48, 48, 49, 51, 49>>

\* a few records per postcode, street and house number, one of them with an
\* empty date and one not valid: what the sorter is given
ShapefileRecords(id) ==
    { [HS_MID |-> id, LABELA |-> l, UL_MID |-> u, NA_MID |-> <<49>>,
       PT_MID |-> p, D_OD |-> sd[2], STATUS |-> sd[1],
       MinX |-> <<14, 40000000>>, MinY |-> Latitude] :
        l \in {<<50>>, <<49, 50>>, <<49, 50, 65>>},
        u \in {<<49>>, <<51>>, <<53>>},
        p \in {<<49>>, <<50>>},
        sd \in {<<StatusValid, GoodDate>>, <<StatusValid, <<>> >>,
                <<(<<90>>), GoodDate>>} }

\* every case of the joins, at every longitude
WideRecords(id) ==
    { [HS_MID |-> id, LABELA |-> <<49, 50, 65>>, UL_MID |-> u,
       NA_MID |-> n, PT_MID |-> p, D_OD |-> GoodDate, STATUS |-> s,
       MinX |-> x, MinY |-> Latitude] :
        u \in {<<49>>, <<50>>, <<51>>, <<52>>, <<53>>},
        n \in {<<49>>, <<50>>, <<51>>, <<52>>, <<53>>},
        p \in {<<49>>, <<51>>, <<52>>, <<53>>},
        s \in {StatusValid, <<90>>},
        x \in Longitudes }

-----------------------------------------------------------------------------
(* main, ReadLookups and the loader goroutines *)

\* the process is still running
Alive == pc \notin {"fatal", "panic", "done"}

LoaderCount == 6

\* wg.Add(6)
AddWaitGroup ==
    /\ pc = "start"
    /\ wg' = LoaderCount
    /\ pc' = "spawn"
    /\ UNCHANGED <<spawned, lpc, maps, cur, nRead, validRefs, features,
                   unsorted, output, hn, key>>

\* the next go statement
Go ==
    /\ pc = "spawn"
    /\ spawned < Len(MapNames)
    /\ spawned' = spawned + 1
    /\ lpc' = [lpc EXCEPT ![spawned + 1] = "ready"]
    /\ UNCHANGED <<pc, wg, maps, cur, nRead, validRefs, features, unsorted,
                   output, hn, key>>

\* a loader goroutine: xMap = readShapefileToMap(...)
LoaderAssign(i) ==
    /\ Alive
    /\ lpc[i] = "ready"
    /\ maps' = [maps EXCEPT ![i] = LoaderResult(i)]
    /\ lpc' = [lpc EXCEPT ![i] = "assigned"]
    /\ UNCHANGED <<pc, wg, spawned, cur, nRead, validRefs, features,
                   unsorted, output, hn, key>>

\* shp.Open fails in a loader: log.Fatal ends the process
LoaderOpenFails(i) ==
    /\ Alive
    /\ lpc[i] = "ready"
    /\ pc' = "fatal"
    /\ UNCHANGED <<wg, spawned, lpc, maps, cur, nRead, validRefs, features,
                   unsorted, output, hn, key>>

\* a loader goroutine: wg.Done()
LoaderDone(i) ==
    /\ Alive
    /\ lpc[i] = "assigned"
    /\ wg' = wg - 1
    /\ lpc' = [lpc EXCEPT ![i] = "done"]
    /\ UNCHANGED <<pc, spawned, maps, cur, nRead, validRefs, features,
                   unsorted, output, hn, key>>

\* a Wait that does not block
WaitNoBarrier ==
    /\ pc = "spawn"
    /\ spawned = Len(MapNames)
    /\ pc' = "open"
    /\ UNCHANGED <<wg, spawned, lpc, maps, cur, nRead, validRefs, features,
                   unsorted, output, hn, key>>

\* wg.Wait() returns
Wait ==
    /\ pc = "spawn"
    /\ spawned = Len(MapNames)
    /\ wg = 0
    /\ pc' = "open"
    /\ UNCHANGED <<wg, spawned, lpc, maps, cur, nRead, validRefs, features,
                   unsorted, output, hn, key>>

-----------------------------------------------------------------------------
(* ReadShapefile *)

OpenShapefile ==
    /\ pc = "open"
    /\ pc' = "read"
    /\ features' = <<>>
    /\ UNCHANGED <<wg, spawned, lpc, maps, cur, nRead, validRefs, unsorted,
                   output, hn, key>>

OpenShapefileFails ==
    /\ pc = "open"
    /\ pc' = "fatal"
    /\ UNCHANGED <<wg, spawned, lpc, maps, cur, nRead, validRefs, features,
                   unsorted, output, hn, key>>

\* no status test
SkippedNever(r) == FALSE

\* the status test at the top of the loop
Skipped(r) == Attribute(r, 12) # StatusValid

\* one iteration of the loop on record r
ReadRecord(r) ==
    /\ pc = "read"
    /\ cur' = r
    /\ nRead' = nRead + 1
    /\ validRefs' = IF r.STATUS = <<86>> THEN Append(validRefs, r.HS_MID)
                    ELSE validRefs
    /\ IF Skipped(r)
       THEN UNCHANGED <<pc, features>>
       ELSE IF DateSliceable(Attribute(r, 10))
       THEN /\ features' = Append(features, BuildFeature(r))
            /\ pc' = pc
       ELSE /\ pc' = "panic"
            /\ UNCHANGED features
    /\ UNCHANGED <<wg, spawned, lpc, maps, unsorted, output, hn, key>>

\* shapeReader.Next() returns true: the next row of the file
ReadNext ==
    /\ pc = "read"
    /\ nRead < MaxRecords
    /\ \E r \in ShapefileRecords(RowId(nRead)) : ReadRecord(r)

\* the same, on a file whose rows cover every case of the joins
ReadNextWide ==
    /\ pc = "read"
    /\ nRead < MaxWideRecords
    /\ \E r \in WideRecords(RowId(nRead)) : ReadRecord(r)

\* shapeReader.Next() returns false
EndOfRecords ==
    /\ pc = "read"
    /\ pc' = "sort"
    /\ UNCHANGED <<wg, spawned, lpc, maps, cur, nRead, validRefs, features,
                   unsorted, output, hn, key>>

\* SortFeatureCollection(*featureCollection)
Sort ==
    /\ pc = "sort"
    /\ unsorted' = features
    /\ IF SortPanics(features)
       THEN pc' = "panic" /\ UNCHANGED features
       ELSE pc' = "write" /\ features' = SortSlice(features)
    /\ UNCHANGED <<wg, spawned, lpc, maps, cur, nRead, validRefs, output,
                   hn, key>>

\* json.MarshalIndent and ioutil.WriteFile
WriteOutput ==
    /\ pc = "write"
    /\ output' = features
    /\ pc' = "done"
    /\ UNCHANGED <<wg, spawned, lpc, maps, cur, nRead, validRefs, features,
                   unsorted, hn, key>>

WriteOutputFails ==
    /\ pc = "write"
    /\ pc' = "fatal"
    /\ UNCHANGED <<wg, spawned, lpc, maps, cur, nRead, validRefs, features,
                   unsorted, output, hn, key>>

-----------------------------------------------------------------------------
(* Specifications *)

Init ==
    /\ pc = "start"
    /\ wg = 0
    /\ spawned = 0
    /\ lpc = [i \in Loaders |-> "idle"]
    /\ maps = [i \in Loaders |-> EmptyMap]
    /\ cur = NoRecord
    /\ nRead = 0
    /\ validRefs = <<>>
    /\ features = <<>>
    /\ unsorted = <<>>
    /\ output = <<>>
    /\ hn = <<>>
    /\ key = <<>>

Pipeline ==
    \/ AddWaitGroup
    \/ Go
    \/ \E i \in Loaders : LoaderAssign(i)
    \/ \E i \in Loaders : LoaderOpenFails(i)
    \/ \E i \in Loaders : LoaderDone(i)
    \/ Wait
    \/ OpenShapefile
    \/ OpenShapefileFails
    \/ EndOfRecords
    \/ Sort
    \/ WriteOutput
    \/ WriteOutputFails

Next ==
    \/ Pipeline
    \/ ReadNext

Spec == Init /\ [][Next]_vars

NextRecord ==
    \/ Pipeline
    \/ ReadNextWide

SpecRecord == Init /\ [][NextRecord]_vars

-----------------------------------------------------------------------------
(* NormalizeHouseNumber on its own: any string over a small alphabet *)

\* '0', '1', '2', '9', 'a', 'b' and U+010D
HnAlphabet == {48, 49, 50, 57, 97, 98, 269}

InitNorm ==
    /\ pc = "normalize"
    /\ wg = 0
    /\ spawned = 0
    /\ lpc = [i \in Loaders |-> "idle"]
    /\ maps = [i \in Loaders |-> EmptyMap]
    /\ cur = NoRecord
    /\ nRead = 0
    /\ validRefs = <<>>
    /\ features = <<>>
    /\ unsorted = <<>>
    /\ output = <<>>
    /\ hn \in StringsUpTo(HnAlphabet, MaxHnLen)
    /\ key = <<>>

NormalizeCall ==
    /\ pc = "normalize"
    /\ key' = NormalizeHouseNumber(hn)
    /\ pc' = "normalized"
    /\ UNCHANGED <<wg, spawned, lpc, maps, cur, nRead, validRefs, features,
                   unsorted, output, hn>>

NextNorm == NormalizeCall

SpecNorm == InitNorm /\ [][NextNorm]_vars

-----------------------------------------------------------------------------
(* Properties *)

Last(q) == q[Len(q)]

Range(q) == {q[i] : i \in 1..Len(q)}

Count(x, q) == Cardinality({i \in 1..Len(q) : q[i] = x})

IsPermutation(q, t) ==
    /\ Len(q) = Len(t)
    /\ \A x \in Range(q) \cup Range(t) : Count(x, q) = Count(x, t)

Refs(q) == [i \in 1..Len(q) |-> q[i].props["ref:GURS:HS_MID"]]

\* the cursor is on a record whose status is "V"
CurValid == cur # NoRecord /\ cur.STATUS = <<86>>

\* the loop has just appended the feature of the cursor's record
JustBuilt ==
    /\ pc = "read"
    /\ CurValid
    /\ Len(features) >= 1
    /\ "ref:GURS:HS_MID" \in DOMAIN Last(features).props
    /\ Last(features).props["ref:GURS:HS_MID"] = cur.HS_MID

HasStreet(f) == "addr:street" \in DOMAIN f.props
HasPlace(f) == "addr:place" \in DOMAIN f.props

\* C1: every feature of the collection has the addr:street key or the
\* addr:place key, never both and never neither, whatever the four name
\* tables hold for the record's street and settlement ids.
C1_ExactlyOneFamily ==
    \A i \in 1..Len(features) : HasStreet(features[i]) # HasPlace(features[i])

\* a valid record whose street id and settlement id are in no table got
\* its feature, and a record with a resolving street id got one too
C1_Witness ==
    /\ JustBuilt
    /\ cur.UL_MID \notin DOMAIN ulNameMap
    /\ cur.UL_MID \notin DOMAIN ulNameDjMap
    /\ cur.NA_MID \notin DOMAIN naNameMap
    /\ cur.NA_MID \notin DOMAIN naNameDjMap
    /\ HasPlace(Last(features))

\* C2: before sorting the features are, in order, those of the records with
\* status "V" and of no other record; the sorted collection is a permutation
\* of them; and that collection is what is written.
C2_OneFeaturePerValidRecord ==
    /\ pc \in {"read", "sort"} => Refs(features) = validRefs
    /\ pc \in {"write", "done"} =>
          /\ Refs(unsorted) = validRefs
          /\ IsPermutation(features, unsorted)
    /\ pc = "done" => output = features

\* a run that read a record that is not valid and two that are, reordered
\* the features and wrote them
C2_Witness ==
    /\ pc = "done"
    /\ Len(validRefs) >= 2
    /\ nRead > Len(validRefs)
    /\ features # unsorted
    /\ output = features

\* main is past wg.Wait()
PastBarrier == pc \in {"open", "read", "sort", "write", "done"}

\* C3: main is past the barrier only when all six loaders have assigned
\* their map and finished; a map changes only in the step in which its own
\* loader assigns it; and no map changes once main is past the barrier.
C3_LoadersBeforeTransformer ==
    /\ [](PastBarrier =>
            \A i \in Loaders : lpc[i] = "done" /\ maps[i] # EmptyMap)
    /\ [][/\ \A i \in Loaders :
               maps'[i] # maps[i] => lpc[i] = "ready" /\ lpc'[i] = "assigned"
          /\ PastBarrier => maps' = maps]_vars

\* the transformer has read a record with every loader finished
C3_Witness ==
    /\ pc = "read"
    /\ nRead >= 1
    /\ \A i \in Loaders : lpc[i] = "done" /\ maps[i] # EmptyMap

\* C4 as stated: on a postal-area id missing from ptCodeMap (ptNameMap) the
\* feature has no addr:postcode (addr:city) property.
C4_AbsentOnMiss ==
    JustBuilt =>
        /\ cur.PT_MID \notin DOMAIN ptCodeMap =>
              "addr:postcode" \notin DOMAIN Last(features).props
        /\ cur.PT_MID \notin DOMAIN ptNameMap =>
              "addr:city" \notin DOMAIN Last(features).props

\* C4 amended: on a postal-area id missing from ptCodeMap (ptNameMap) the
\* feature has the addr:postcode (addr:city) property, with the empty string
\* as its value.
C4_EmptyStringOnMiss ==
    JustBuilt =>
        /\ cur.PT_MID \notin DOMAIN ptCodeMap =>
              /\ "addr:postcode" \in DOMAIN Last(features).props
              /\ Last(features).props["addr:postcode"] = <<>>
        /\ cur.PT_MID \notin DOMAIN ptNameMap =>
              /\ "addr:city" \in DOMAIN Last(features).props
              /\ Last(features).props["addr:city"] = <<>>

\* the feature of a valid record whose postal-area id is in neither map
C4_Witness ==
    /\ JustBuilt
    /\ cur.PT_MID \notin DOMAIN ptCodeMap
    /\ cur.PT_MID \notin DOMAIN ptNameMap

\* C5 as stated: a valid record never aborts the run, whatever its date
\* field: the program does not panic on it and its feature is appended.
C5_DateNeverAborts ==
    CurValid =>
        /\ pc # "panic"
        /\ pc = "read" => Len(features) = Len(validRefs)

\* h is empty or ends in one of '0'..'9'
EndsInDigit(h) == h = <<>> \/ Last(h) \in 48..57

\* h leaves room for the padding: at most 3 characters, or 4 of which the
\* last is no digit
FitsFour(h) == Len(h) <= 3 \/ (Len(h) = 4 /\ ~EndsInDigit(h))

DigitsOf(h) == IF EndsInDigit(h) THEN h ELSE SubSeq(h, 1, Len(h) - 1)

\* 0 for no suffix, else the letter
SuffixOf(h) == IF EndsInDigit(h) THEN 0 ELSE Last(h)

\* a number 0..999 written without leading zeros, then at most one of a..z
IsHouseNumber(h) ==
    /\ h # <<>>
    /\ ~EndsInDigit(h) => Last(h) \in 97..122
    /\ Len(DigitsOf(h)) \in 1..3
    /\ \A i \in 1..Len(DigitsOf(h)) : DigitsOf(h)[i] \in 48..57
    /\ Len(DigitsOf(h)) > 1 => DigitsOf(h)[1] # 48

RECURSIVE NumberOf(_)
NumberOf(d) ==
    IF d = <<>> THEN 0
    ELSE 10 * NumberOf(SubSeq(d, 1, Len(d) - 1)) + (Last(d) - 48)

\* h1 is before h2 as a house number
HouseNumberBefore(h1, h2) ==
    \/ NumberOf(DigitsOf(h1)) < NumberOf(DigitsOf(h2))
    \/ /\ NumberOf(DigitsOf(h1)) = NumberOf(DigitsOf(h2))
       /\ SuffixOf(h1) < SuffixOf(h2)

HouseNumbers == {h \in StringsUpTo(HnAlphabet, 4) : IsHouseNumber(h)}

\* C7: for house numbers h1, h2 (a number 0..999 without leading zeros and
\* at most one lowercase letter), normalize(h1) < normalize(h2) exactly when
\* h1's number is smaller, or the numbers are equal and h1's suffix comes
\* first, no suffix before every letter.
C7_OrderPreserved ==
    (pc = "normalized" /\ IsHouseNumber(hn)) =>
        \A g \in HouseNumbers :
            /\ StrLess(key, NormalizeHouseNumber(g)) <=> HouseNumberBefore(hn, g)
            /\ StrLess(NormalizeHouseNumber(g), key) <=> HouseNumberBefore(g, hn)

\* "12" was normalized to "012_", which is after the key of "2" and before
\* the key of "12a"
C7_Witness ==
    /\ pc = "normalized"
    /\ hn = <<49, 50>>
    /\ key = <<48, 49, 50, 95>>
    /\ StrLess(NormalizeHouseNumber(<<50>>), key)
    /\ StrLess(key, NormalizeHouseNumber(<<49, 50, 97>>))

\* the collection has been sorted
Sorted == pc \in {"write", "done"}

NameOf(f) ==
    IF HasStreet(f) THEN f.props["addr:street"] ELSE f.props["addr:place"]

PostOf(f) == f.props["addr:postcode"]

HouseKeyOf(f) == NormalizeHouseNumber(f.props["addr:housenumber"])

\* some feature with this postcode has a street tag and some a place tag
Mixed(q, post) ==
    /\ \E i \in 1..Len(q) : PostOf(q[i]) = post /\ HasStreet(q[i])
    /\ \E i \in 1..Len(q) : PostOf(q[i]) = post /\ ~HasStreet(q[i])

RawEast(r) == r.MinX[1] > 14 \/ (r.MinX[1] = 14 /\ r.MinX[2] > 50000000)

\* east of 14.5 after rounding to 7 decimals
RoundedEast(r) ==
    LET q == (r.MinX[2] + 5) \div 10
        deg == IF q >= 10000000 THEN r.MinX[1] + 1 ELSE r.MinX[1]
        frac == IF q >= 10000000 THEN q - 10000000 ELSE q
    IN deg > 14 \/ (deg = 14 /\ frac > 5000000)

\* the record's primary name resolves (street first, else settlement) and
\* has an alternate name that is present and different
Bilingual(r) ==
    IF r.UL_MID \in DOMAIN ulNameMap
    THEN /\ r.UL_MID \in DOMAIN ulNameDjMap
         /\ ulNameDjMap[r.UL_MID] # ulNameMap[r.UL_MID]
    ELSE /\ r.NA_MID \in DOMAIN naNameMap
         /\ r.NA_MID \in DOMAIN naNameDjMap
         /\ naNameDjMap[r.NA_MID] # naNameMap[r.NA_MID]

FamilyOf(r) ==
    IF r.UL_MID \in DOMAIN ulNameMap THEN "addr:street" ELSE "addr:place"

PrimaryOf(r) ==
    IF r.UL_MID \in DOMAIN ulNameMap THEN ulNameMap[r.UL_MID]
    ELSE naNameMap[r.NA_MID]

AlternateOf(r) ==
    IF r.UL_MID \in DOMAIN ulNameMap THEN ulNameDjMap[r.UL_MID]
    ELSE naNameDjMap[r.NA_MID]

\* f has the :sl variant with the primary name and, of the :hu and :it
\* variants, only the one for the side of the meridian, with the alternate
SuffixesFor(f, r, east) ==
    LET fam == FamilyOf(r)
        want == IF east THEN fam \o ":hu" ELSE fam \o ":it"
        other == IF east THEN fam \o ":it" ELSE fam \o ":hu"
    IN /\ (fam \o ":sl") \in DOMAIN f.props
       /\ f.props[fam \o ":sl"] = PrimaryOf(r)
       /\ want \in DOMAIN f.props
       /\ f.props[want] = AlternateOf(r)
       /\ other \notin DOMAIN f.props

\* C9 as stated: the suffix of the second variant is :hu when the record's
\* longitude is > 14.5 and :it otherwise.
C9_SuffixByRecordLongitude ==
    (JustBuilt /\ Bilingual(cur)) =>
        SuffixesFor(Last(features), cur, RawEast(cur))

\* C9 amended: the suffix of the second variant is :hu when the record's
\* longitude rounded to 7 decimals (the feature's longitude) is > 14.5 and
\* :it otherwise.
C9_SuffixByRoundedLongitude ==
    (JustBuilt /\ Bilingual(cur)) =>
        SuffixesFor(Last(features), cur, RoundedEast(cur))

\* a bilingual street at 14.6 east got its :hu variant
C9_Witness ==
    /\ JustBuilt
    /\ Bilingual(cur)
    /\ cur.MinX = <<14, 60000000>>
    /\ "addr:street:hu" \in DOMAIN Last(features).props
    /\ "addr:street:sl" \in DOMAIN Last(features).props

\* the name and house-number key of a are not after those of b
NameKeyLeq(a, b) ==
    \/ StrLess(NameOf(a), NameOf(b))
    \/ /\ NameOf(a) = NameOf(b)
       /\ StrLeq(HouseKeyOf(a), HouseKeyOf(b))

\* C10: after sorting the postcodes ascend; and among the features of a
\* postcode that all carry the same tag family, the names ascend and, for
\* equal names, the normalized house numbers.
C10_SortedByKey ==
    Sorted =>
        \A i, j \in 1..Len(features) :
            i < j =>
                /\ StrLeq(PostOf(features[i]), PostOf(features[j]))
                /\ (/\ PostOf(features[i]) = PostOf(features[j])
                    /\ ~Mixed(features, PostOf(features[i])))
                   => NameKeyLeq(features[i], features[j])

\* three features sorted out of another order: two postcodes, and under one
\* of them two features of one family that differ in name or house number
C10_Witness ==
    /\ Sorted
    /\ Len(features) = 3
    /\ features # unsorted
    /\ PostOf(features[1]) # PostOf(features[3])
    /\ \E i \in 1..2 :
          /\ PostOf(features[i]) = PostOf(features[i + 1])
          /\ ~Mixed(features, PostOf(features[i]))
          /\ ~NameKeyLeq(features[i + 1], features[i])

=============================================================================
